---- MODULE Spec2Model ----
(***************************************************************************)
(* Model of the summarization core of src/summarizer/summarize.py:         *)
(* summarize (the orchestrator), chunk_text, merge_summaries,              *)
(* _extractive_fallback and the module-level pipeline cache; and of the    *)
(* export functions of src/summarizer/export.py.                           *)
(*                                                                         *)
(* A text is a sequence of one-character strings.  Token estimates are the *)
(* code's  word_count * 1.3 ; they are kept in tenths of a token           *)
(* (word_count * 13) so that every comparison is exact integer arithmetic. *)
(* The comparisons of the code are between such an estimate and an integer *)
(* max_tokens, and the two differ by at least 0.1 unless max_tokens is a   *)
(* multiple of 13, which neither 1024 nor any bound used here is, so the   *)
(* rounding of the floating-point sum never decides a comparison.          *)
(***************************************************************************)
EXTENDS Integers, Sequences, FiniteSets, TLC

VARIABLES
    cached,       \* _cached_pipeline: "none" or "pipe"
    pc,           \* position of the running summarize call, "idle" between calls
    text,         \* argument text of the running call, as its characters
    text_type,    \* type of that argument: "str" or "bytes"
    max_length,   \* argument max_length of the running call
    chunks,       \* local chunks of summarize (chunked path)
    summaries,    \* local summaries of summarize (chunked path)
    combined,     \* local combined of merge_summaries
    inflight,     \* <<t>> while a model call on text t has not returned, else <<>>
    error_msg,    \* local error_msg of the except handler
    result,       \* what the call gave its caller
    hist,         \* history of the running call: loads, model calls, chunker, merge
    arg_text,     \* chunk_text harness: argument text
    arg_max_tokens, \* chunk_text harness: argument max_tokens
    ret,          \* chunk_text harness: <<>> before the call, <<outcome>> after
    export_fn,      \* export harness: the function of export.py that is called
    arg_transcript, \* export harness: argument transcript
    arg_summary,    \* export harness: argument summary
    export_ret,     \* export harness: <<>> before the call, <<outcome>> after
    cached_recognizer, \* transcribe.py: _cached_recognizer, "none" or "recognizer"
    tr,             \* transcribe.py: frame of the running transcribe call
    files,          \* transcribe.py: the temporary WAV files that exist on disk
    last_call,      \* transcribe.py: the last function of the module called
    model_info,     \* transcribe.py: <<>> or <<what get_cached_model_info gave>>
    env,            \* app: SUMMARY_MAX_LENGTH and SUMMARY_MIN_LENGTH of the environment
    cfg,            \* app: <<>> before config is imported, then <<its values>>
    session,        \* app: st.session_state, its transcript and summary
    app,            \* app: frame of the running process_audio call
    src,            \* app: the run that wrote each field of the session
    summ_args,      \* app: <<>> or <<arguments of the last summarize call>>
    conc_cached,    \* threads: _cached_pipeline, 0 for None or a pipeline instance
    th,             \* threads: frame of each thread's summarize call
    created,        \* threads: the pipeline(...) instances created since the last clear
    fb_text,          \* _extractive_fallback harness: argument text
    fb_num_sentences, \* _extractive_fallback harness: argument num_sentences
    fb_ret            \* _extractive_fallback harness: <<>> or <<result>>

vars == <<cached, pc, text, text_type, max_length, chunks, summaries, combined, inflight,
          error_msg, result, hist, arg_text, arg_max_tokens, ret,
          export_fn, arg_transcript, arg_summary, export_ret,
          cached_recognizer, tr, files, last_call, model_info,
          env, cfg, session, app, src, summ_args,
          conc_cached, th, created,
          fb_text, fb_num_sentences, fb_ret>>

summVars == <<cached, pc, text, text_type, max_length, chunks, summaries, combined,
              inflight, error_msg, result, hist>>
exportVars == <<export_fn, arg_transcript, arg_summary, export_ret>>
transVars == <<cached_recognizer, tr, files, last_call, model_info>>
appVars == <<env, cfg, session, app, src, summ_args>>
concVars == <<conc_cached, th, created>>
fbVars == <<fb_text, fb_num_sentences, fb_ret>>
lateVars == <<appVars, concVars, fbVars>>
newVars == <<transVars, lateVars>>
fnVars == <<arg_text, arg_max_tokens, ret, exportVars, newVars>>
oldVars == <<summVars, arg_text, arg_max_tokens, ret, exportVars, lateVars>>
baseVars == <<summVars, arg_text, arg_max_tokens, ret, exportVars, transVars>>

-----------------------------------------------------------------------------
(* Bounds of the model *)

MaxLen == 6        \* longest text given to chunk_text in ChunkSpec
MaxTok == 3        \* largest max_tokens given to chunk_text in ChunkSpec

-----------------------------------------------------------------------------
(* Characters and the string primitives of Python the code uses *)

\* Optional[str]: None is <<>>, a message m is <<m>>
None == <<>>
Some(m) == <<m>>

IsWs(c) == c = " " \/ c = "\t" \/ c = "\n"
IsTerm(c) == c = "." \/ c = "!" \/ c = "?"

\* the increasing sequence of the members of S, a subset of 1..n
SortedSeq(S, n) == SelectSeq([i \in 1..n |-> i], LAMBDA i : i \in S)

\* not text.strip(): no character other than whitespace
Blank(t) == \A i \in 1..Len(t) : IsWs(t[i])

WordStarts(t) == {i \in 1..Len(t) : ~IsWs(t[i]) /\ (i = 1 \/ IsWs(t[i-1]))}
WordEnds(t) == {i \in 1..Len(t) : ~IsWs(t[i]) /\ (i = Len(t) \/ IsWs(t[i+1]))}

\* text.split(): the maximal runs of non-whitespace characters, in order
Split(t) ==
    LET s == SortedSeq(WordStarts(t), Len(t))
        e == SortedSeq(WordEnds(t), Len(t))
    IN  [k \in 1..Len(s) |-> SubSeq(t, s[k], e[k])]

\* len(text.split())
WordCount(t) == Cardinality(WordStarts(t))

\* ' '.join(l), by halves so that long lists need no deep recursion
RECURSIVE Join(_)
Join(l) ==
    IF Len(l) = 0 THEN <<>>
    ELSE IF Len(l) = 1 THEN l[1]
    ELSE LET h == Len(l) \div 2
         IN  Join(SubSeq(l, 1, h)) \o <<" ">> \o Join(SubSeq(l, h + 1, Len(l)))

\* re.split(r'(?<=[.!?])\s+', text): a separator is a maximal whitespace run
\* whose preceding character is '.', '!' or '?'
SepStarts(t) == {i \in 2..Len(t) : IsWs(t[i]) /\ IsTerm(t[i-1])}
SepEnd(t, s) ==
    CHOOSE e \in s..Len(t) :
        /\ \A j \in s..e : IsWs(t[j])
        /\ e = Len(t) \/ ~IsWs(t[e+1])
ReSplit(t) ==
    LET ss == SortedSeq(SepStarts(t), Len(t))
        n  == Len(ss) + 1
    IN  [k \in 1..n |->
            SubSeq(t, IF k = 1 THEN 1 ELSE SepEnd(t, ss[k-1]) + 1,
                      IF k = n THEN Len(t) ELSE ss[k] - 1)]

\* len(fragment.split()) * 1.3, in tenths of a token
Est10(t) == WordCount(t) * 13

\* faulty variant: the group size is max_tokens words
ChunkSize_raw(max_tokens) == max_tokens

\* int(max_tokens / 1.3)
ChunkSize(max_tokens) == (max_tokens * 10) \div 13

\* range(0, n, step) as the 0-based start offsets; step = 0 raises ValueError
Range(n, step) == [g \in 1..((n + step - 1) \div step) |-> (g - 1) * step]

Min(a, b) == IF a < b THEN a ELSE b

-----------------------------------------------------------------------------
(* chunk_text *)

\* the hard split of one sentence: words[i:i+chunk_size] joined, for each i
HardSplit(sentence, chunk_size) ==
    LET words == Split(sentence)
        starts == Range(Len(words), chunk_size)
    IN  [g \in 1..Len(starts) |->
            Join(SubSeq(words, starts[g] + 1,
                        Min(starts[g] + chunk_size, Len(words))))]

\* faulty variant: the sentence that overflows the budget goes into the chunk
\* that is being closed, and the next chunk starts empty
ChunkStep_overflow(st, sentence, max_tokens) ==
    LET sentence_tokens == Est10(sentence)
    IN  IF st.raised THEN st
        ELSE IF st.current_length + sentence_tokens > max_tokens * 10
        THEN IF st.current_chunk # <<>>
             THEN [st EXCEPT
                     !.chunks = Append(@, Join(Append(st.current_chunk, sentence))),
                     !.origin = Append(@, [hard |-> FALSE,
                                           sents |-> Append(st.current_chunk,
                                                            sentence)]),
                     !.current_chunk = <<>>,
                     !.current_length = 0]
             ELSE IF ChunkSize(max_tokens) = 0
                  THEN [st EXCEPT !.raised = TRUE]
                  ELSE LET groups == HardSplit(sentence, ChunkSize(max_tokens))
                       IN  [st EXCEPT
                              !.chunks = @ \o groups,
                              !.origin = @ \o [g \in 1..Len(groups) |->
                                                 [hard |-> TRUE,
                                                  sents |-> <<sentence>>]]]
        ELSE [st EXCEPT
                !.current_chunk = Append(@, sentence),
                !.current_length = @ + sentence_tokens]

\* One iteration of the for loop over sentences.  st is the loop state:
\* chunks, current_chunk, current_length (tenths), raised, and the history
\* origin: for every chunk, whether the hard split made it and the sentences
\* it was made from.
ChunkStep(st, sentence, max_tokens) ==
    LET sentence_tokens == Est10(sentence)
    IN  IF st.raised THEN st
        ELSE IF st.current_length + sentence_tokens > max_tokens * 10
        THEN IF st.current_chunk # <<>>
             THEN [st EXCEPT
                     !.chunks = Append(@, Join(st.current_chunk)),
                     !.origin = Append(@, [hard |-> FALSE,
                                           sents |-> st.current_chunk]),
                     !.current_chunk = <<sentence>>,
                     !.current_length = sentence_tokens]
             ELSE IF ChunkSize(max_tokens) = 0
                  THEN [st EXCEPT !.raised = TRUE]
                  ELSE LET groups == HardSplit(sentence, ChunkSize(max_tokens))
                       IN  [st EXCEPT
                              !.chunks = @ \o groups,
                              !.origin = @ \o [g \in 1..Len(groups) |->
                                                 [hard |-> TRUE,
                                                  sents |-> <<sentence>>]]]
        ELSE [st EXCEPT
                !.current_chunk = Append(@, sentence),
                !.current_length = @ + sentence_tokens]

RECURSIVE ChunkLoop(_, _, _, _)
ChunkLoop(st, sentences, k, max_tokens) ==
    IF k > Len(sentences) THEN st
    ELSE ChunkLoop(ChunkStep(st, sentences[k], max_tokens),
                   sentences, k + 1, max_tokens)

\* faulty variant: the chunk being built when the loop ends is not appended
chunk_text_noflush(t, max_tokens) ==
    LET st0 == [chunks |-> <<>>, origin |-> <<>>, current_chunk |-> <<>>,
                current_length |-> 0, raised |-> FALSE]
        st  == ChunkLoop(st0, ReSplit(t), 1, max_tokens)
    IN  IF st.raised
        THEN [raised |-> TRUE, chunks |-> <<>>, origin |-> <<>>]
        ELSE [raised |-> FALSE, chunks |-> st.chunks, origin |-> st.origin]

\* faulty variant: range(0, 0, chunk_size) is evaluated before the loop, so a
\* group size of 0 raises for every text
chunk_text_eager(t, max_tokens) ==
    LET st0 == [chunks |-> <<>>, origin |-> <<>>, current_chunk |-> <<>>,
                current_length |-> 0, raised |-> FALSE]
        st  == ChunkLoop(st0, ReSplit(t), 1, max_tokens)
    IN  IF st.raised \/ ChunkSize(max_tokens) = 0
        THEN [raised |-> TRUE, chunks |-> <<>>, origin |-> <<>>]
        ELSE IF st.current_chunk # <<>>
        THEN [raised |-> FALSE,
              chunks |-> Append(st.chunks, Join(st.current_chunk)),
              origin |-> Append(st.origin, [hard |-> FALSE,
                                            sents |-> st.current_chunk])]
        ELSE [raised |-> FALSE, chunks |-> st.chunks, origin |-> st.origin]

\* chunk_text(text, max_tokens): [raised, chunks, origin]
chunk_text(t, max_tokens) ==
    LET st0 == [chunks |-> <<>>, origin |-> <<>>, current_chunk |-> <<>>,
                current_length |-> 0, raised |-> FALSE]
        st  == ChunkLoop(st0, ReSplit(t), 1, max_tokens)
    IN  IF st.raised
        THEN [raised |-> TRUE, chunks |-> <<>>, origin |-> <<>>]
        ELSE IF st.current_chunk # <<>>
        THEN [raised |-> FALSE,
              chunks |-> Append(st.chunks, Join(st.current_chunk)),
              origin |-> Append(st.origin, [hard |-> FALSE,
                                            sents |-> st.current_chunk])]
        ELSE [raised |-> FALSE, chunks |-> st.chunks, origin |-> st.origin]

-----------------------------------------------------------------------------
(* merge_summaries and _extractive_fallback: the parts that make no model call *)

\* combined = ' '.join(summary_chunks)
Combine(summary_chunks) == Join(summary_chunks)

\* faulty variant: a concatenation of exactly max_length words is compressed
ShortEnough_strict(c, maxlen) == WordCount(c) < maxlen

\* len(combined.split()) <= max_length: returned as is, no second pass
ShortEnough(c, maxlen) == WordCount(c) <= maxlen

\* faulty variant: the first max_length characters instead of words
Truncate_chars(c, maxlen) == SubSeq(c, 1, Min(maxlen, Len(c)))

\* ' '.join(combined.split()[:max_length])
Truncate(c, maxlen) ==
    LET words == Split(c)
    IN  Join(SubSeq(words, 1, Min(maxlen, Len(words))))

\* faulty variant: the slice stops one sentence early
_extractive_fallback_short(t, num_sentences) ==
    LET sentences == ReSplit(t)
    IN  Join(SubSeq(sentences, 1, Min(num_sentences, Len(sentences)) - 1))

\* faulty variant: the last num_sentences sentences instead of the first
_extractive_fallback_last(t, num_sentences) ==
    LET sentences == ReSplit(t)
        k == Min(num_sentences, Len(sentences))
    IN  Join(SubSeq(sentences, Len(sentences) - k + 1, Len(sentences)))

\* sentences[:num_sentences] joined by single spaces
_extractive_fallback(t, num_sentences) ==
    LET sentences == ReSplit(t)
    IN  Join(SubSeq(sentences, 1, Min(num_sentences, Len(sentences))))

-----------------------------------------------------------------------------
(* Constants of summarize *)

MAX_TOKENS == 1024            \* max_tokens = 1024
NUM_SENTENCES == 3            \* _extractive_fallback(text, num_sentences=3)
DEFAULT_MAX_LENGTH == 150     \* max_length: int = 150

\* error_msg = "Input text is empty", as its words
EmptyMsg == <<"Input", "text", "is", "empty">>
\* f"Summarization error: {str(e)}"
ErrorMsg(e) == <<"Summarization", "error:", e>>
\* str(e) of the TypeError re.split raises when text is a bytes object
PatternTypeError == "cannot use a string pattern on a bytes-like object"

\* faulty variant: the word count itself is compared with the budget
NeedsChunking_words(t) == WordCount(t) > MAX_TOKENS

\* estimated_tokens > max_tokens
NeedsChunking(t) == Est10(t) > MAX_TOKENS * 10

\* faulty variant: only "not text" is tested
IsEmptyInput_nostrip(t) == t = <<>>

\* if not text or not text.strip()
IsEmptyInput(t) == t = <<>> \/ Blank(t)

\* faulty variant: the chunks are taken last to first
NextChunk_reversed(cs, sums) == cs[Len(cs) - Len(sums)]

\* for i, chunk in enumerate(chunks): the chunk of the next model call
NextChunk(cs, sums) == cs[Len(sums) + 1]

\* summaries.append(chunk_summary)
AddSummary(sums, s) == Append(sums, s)

-----------------------------------------------------------------------------
(* Inputs and outcomes the model draws from *)

Slack == 1         \* word counts within Slack of the direct/chunked boundary
MaxSent == 3       \* most sentences in a generated long text

\* the largest word count whose estimate fits the budget: 787
Boundary == (MAX_TOKENS * 10) \div 13

\* n words "a" separated by single spaces, no sentence end
WordsText(n) == [i \in 1..(2 * n - 1) |-> IF i % 2 = 1 THEN "a" ELSE " "]

\* k sentences of n words each, every sentence closed by '.', single spaces
SentencesText(n, k) ==
    [i \in 1..(k * (2 * n + 1) - 1) |->
        LET j == (i - 1) % (2 * n + 1)
        IN  IF j = 2 * n THEN " "
            ELSE IF j = 2 * n - 1 THEN "."
            ELSE IF j % 2 = 0 THEN "a" ELSE " "]

\* a one-word sentence followed by a sentence of n words without an end mark
ShortThenLong(n) == <<"b", ".", " ">> \o WordsText(n)

ShortTexts ==
    { <<>>, <<" ">>, <<" ", "\n", "\t">>,
      <<"a", " ", "b", ".">>,
      <<"a", ".", " ", "b", "!", " ", " ", "c", "?", " ", "d", ".", " ", "e">>,
      <<" ", "a", ".", " ", "b", " ">> }

LongTexts ==
    {WordsText(n) : n \in (Boundary - Slack)..(Boundary + 1 + Slack)}
    \cup {SentencesText(n, k) : n \in {Boundary \div 2, Boundary \div 2 + 1},
                                k \in 2..MaxSent}
    \cup {ShortThenLong(Boundary + 1)}

InputTexts == ShortTexts \cup LongTexts

\* the annotation text: str is not enforced: bytes objects that reach
\* summarize, a short one and one over the budget
BytesTexts == {<<"a", " ", "b", ".">>, WordsText(Boundary + 1)}

Arguments ==
    {[type |-> "str", text |-> t] : t \in InputTexts}
    \cup {[type |-> "bytes", text |-> t] : t \in BytesTexts}

MaxLengths == {1, DEFAULT_MAX_LENGTH}

\* what a model call can return: the summary_text of its output
ModelOutputs == { <<>>, <<"s">>, <<"s", " ", "t", ".">> }

\* messages of the exceptions pipeline(...) and the model call can raise
LoadErrors == {"load failed"}
CallErrors == {"model failed"}

-----------------------------------------------------------------------------
(* The state machine of summarize and the pipeline cache *)

NoResult == <<>>

\* the frame of transcribe between two calls
NoAudio == [exists |-> FALSE, ext |-> ""]
IdleFrame ==
    [pc |-> "idle", audio |-> NoAudio, conv_file |-> <<>>,
     temp_wav_path |-> <<>>, made |-> {}, ret |-> <<>>]

\* transcribe.py when the process starts: _cached_recognizer = None (line 19)
TransIdle ==
    /\ cached_recognizer = "none"
    /\ tr = IdleFrame
    /\ files = {}
    /\ last_call = "none"
    /\ model_info = <<>>

\* the environment sets neither SUMMARY_MAX_LENGTH nor SUMMARY_MIN_LENGTH
NoEnv == [SUMMARY_MAX_LENGTH |-> <<>>, SUMMARY_MIN_LENGTH |-> <<>>]

\* initialize_session_state: transcript and summary start as ""
EmptySession == [transcript |-> <<>>, summary |-> <<>>]

\* the frame of process_audio between two runs
IdleRun(n) == [pc |-> "ready", run |-> n, transcript_text |-> <<>>]

\* the app before config is imported and before any run
AppIdle ==
    /\ env = NoEnv
    /\ cfg = <<>>
    /\ session = EmptySession
    /\ app = [pc |-> "start", run |-> 0, transcript_text |-> <<>>]
    /\ src = [transcript |-> 0, summary |-> 0]
    /\ summ_args = <<>>

MaxThreads == 2    \* threads that call summarize concurrently
Threads == 1..MaxThreads

\* a thread outside summarize, with n calls left to make
IdleThread(n) == [pc |-> "idle", mine |-> 0, used |-> <<>>, left |-> n]

\* no thread has called summarize: _cached_pipeline = None (line 16)
ConcIdle ==
    /\ conc_cached = 0
    /\ th = [t \in Threads |-> IdleThread(0)]
    /\ created = {}

FbIdle ==
    /\ fb_text = <<>>
    /\ fb_num_sentences = NUM_SENTENCES
    /\ fb_ret = <<>>

LateIdle == AppIdle /\ ConcIdle /\ FbIdle

\* the modules that a specification does not exercise stay as they start
NewIdle == TransIdle /\ LateIdle

FreshHist(c) ==
    [cached0 |-> c,      \* _cached_pipeline when the call started
     loads   |-> 0,      \* pipeline(...) invocations
     loadRaised |-> FALSE,
     chunker |-> 0,      \* chunk_text invocations
     calls   |-> <<>>,   \* model calls: kind, input, out
     merges  |-> <<>>,   \* arguments of the merge_summaries invocations
     fallbacks |-> 0,    \* _extractive_fallback invocations
     fallbackRaised |-> FALSE]

IdleHist == FreshHist("none")

Init ==
    /\ cached = "none"
    /\ pc = "idle"
    /\ text = <<>>
    /\ text_type = "str"
    /\ max_length = DEFAULT_MAX_LENGTH
    /\ chunks = <<>>
    /\ summaries = <<>>
    /\ combined = <<>>
    /\ inflight = <<>>
    /\ error_msg = None
    /\ result = NoResult
    /\ hist = IdleHist
    /\ arg_text = <<>>
    /\ arg_max_tokens = 1
    /\ ret = <<>>
    /\ export_fn = "none"
    /\ arg_transcript = <<>>
    /\ arg_summary = <<>>
    /\ export_ret = <<>>
    /\ NewIdle

\* outcome of a model call
Pending == [status |-> "pending", summary |-> <<>>]
Raised == [status |-> "raise", summary |-> <<>>]
Returned(s) == [status |-> "ok", summary |-> s]

\* the model is called with input t: _cached_pipeline(t, ...)
StartCall(kind, t) ==
    /\ inflight' = <<t>>
    /\ hist' = [hist EXCEPT !.calls = Append(@, [kind |-> kind, input |-> t,
                                                  out |-> Pending])]

\* the pending call ends with outcome out: Returned(s) or Raised
EndCall(out) ==
    /\ inflight' = <<>>
    /\ hist' = [hist EXCEPT !.calls[Len(hist.calls)].out = out]

\* return s, e
Return(s, e) ==
    /\ result' = <<s, e>>
    /\ pc' = "return"

\* an exception e raised inside the try block: except Exception as e
Caught(e) ==
    /\ error_msg' = ErrorMsg(e)
    /\ pc' = "except"

\* summarize(t, ml) is called; ty is the type of t
Summarize(t, ty, ml) ==
    /\ pc = "idle"
    /\ pc' = "validate"
    /\ text' = t
    /\ text_type' = ty
    /\ max_length' = ml
    /\ result' = NoResult
    /\ hist' = FreshHist(cached)
    /\ UNCHANGED <<cached, chunks, summaries, combined, inflight, error_msg>>
    /\ UNCHANGED fnVars

\* lines 42-45: validate input
Validate ==
    /\ pc = "validate"
    /\ IF IsEmptyInput(text)
       THEN Return(<<>>, Some(EmptyMsg))
       ELSE pc' = "init_pipeline" /\ UNCHANGED result
    /\ UNCHANGED <<cached, text, text_type, max_length, chunks, summaries, combined,
                   inflight, error_msg, hist>>
    /\ UNCHANGED fnVars

\* faulty variant: pipeline(...) is invoked whether or not a handle is cached
InitPipeline_always ==
    /\ pc = "init_pipeline"
    /\ pc' = "loading"
    /\ hist' = [hist EXCEPT !.loads = @ + 1]
    /\ UNCHANGED <<cached, text, text_type, max_length, chunks, summaries, combined,
                   inflight, error_msg, result>>
    /\ UNCHANGED fnVars

\* line 48: if _cached_pipeline is None, pipeline(...) is invoked
InitPipeline ==
    /\ pc = "init_pipeline"
    /\ IF cached = "none"
       THEN /\ pc' = "loading"
            /\ hist' = [hist EXCEPT !.loads = @ + 1]
       ELSE /\ pc' = "estimate"
            /\ UNCHANGED hist
    /\ UNCHANGED <<cached, text, text_type, max_length, chunks, summaries, combined,
                   inflight, error_msg, result>>
    /\ UNCHANGED fnVars

\* lines 50-55: pipeline(...) returned, the handle is cached
LoadOk ==
    /\ pc = "loading"
    /\ cached' = "pipe"
    /\ pc' = "estimate"
    /\ UNCHANGED <<text, text_type, max_length, chunks, summaries, combined, inflight,
                   error_msg, result, hist>>
    /\ UNCHANGED fnVars

\* faulty variant: the model is loaded outside the try block
LoadRaise_uncaught(e) ==
    /\ pc = "loading"
    /\ pc' = "raised"
    /\ hist' = [hist EXCEPT !.loadRaised = TRUE]
    /\ UNCHANGED <<cached, text, text_type, max_length, chunks, summaries, combined,
                   inflight, error_msg, result>>
    /\ UNCHANGED fnVars

\* faulty variant: a handle is cached although pipeline(...) raised
LoadRaise_poisoned(e) ==
    /\ pc = "loading"
    /\ Caught(e)
    /\ cached' = "pipe"
    /\ hist' = [hist EXCEPT !.loadRaised = TRUE]
    /\ UNCHANGED <<text, text_type, max_length, chunks, summaries, combined,
                   inflight, result>>
    /\ UNCHANGED fnVars

\* lines 50-54: pipeline(...) raised; the assignment never happens
LoadRaise(e) ==
    /\ pc = "loading"
    /\ Caught(e)
    /\ hist' = [hist EXCEPT !.loadRaised = TRUE]
    /\ UNCHANGED <<cached, text, text_type, max_length, chunks, summaries, combined,
                   inflight, result>>
    /\ UNCHANGED fnVars

\* lines 58-64 and 83: estimate, then chunk the text or call the model
\* directly; re.split in chunk_text (line 121) raises on bytes
Estimate ==
    /\ pc = "estimate"
    /\ IF NeedsChunking(text)
       THEN LET r == chunk_text(text, MAX_TOKENS)
            IN  /\ hist' = [hist EXCEPT !.chunker = @ + 1]
                /\ IF text_type = "bytes"
                   THEN /\ Caught(PatternTypeError)
                        /\ UNCHANGED <<chunks, summaries>>
                   ELSE IF r.raised
                   THEN /\ Caught("range() arg 3 must not be zero")
                        /\ UNCHANGED <<chunks, summaries>>
                   ELSE /\ chunks' = r.chunks
                        /\ summaries' = <<>>
                        /\ pc' = "chunk_loop"
                        /\ UNCHANGED error_msg
                /\ UNCHANGED inflight
       ELSE /\ StartCall("direct", text)
            /\ pc' = "direct_call"
            /\ UNCHANGED <<chunks, summaries, error_msg>>
    /\ UNCHANGED <<cached, text, text_type, max_length, combined, result>>
    /\ UNCHANGED fnVars

\* lines 83-91: the direct call returned summary s
DirectReturn(s) ==
    /\ pc = "direct_call"
    /\ EndCall(Returned(s))
    /\ Return(s, None)
    /\ UNCHANGED <<cached, text, text_type, max_length, chunks, summaries, combined,
                   error_msg>>
    /\ UNCHANGED fnVars

\* lines 83-88: the direct call raised
DirectRaise(e) ==
    /\ pc = "direct_call"
    /\ EndCall(Raised)
    /\ Caught(e)
    /\ UNCHANGED <<cached, text, text_type, max_length, chunks, summaries, combined,
                   result>>
    /\ UNCHANGED fnVars

\* lines 66-68: the next chunk goes to the model; line 77 after the last
ChunkLoopStep ==
    /\ pc = "chunk_loop"
    /\ IF Len(summaries) < Len(chunks)
       THEN /\ StartCall("chunk", NextChunk(chunks, summaries))
            /\ pc' = "chunk_call"
       ELSE /\ pc' = "merge"
            /\ UNCHANGED <<inflight, hist>>
    /\ UNCHANGED <<cached, text, text_type, max_length, chunks, summaries, combined,
                   error_msg, result>>
    /\ UNCHANGED fnVars

\* lines 68-74: the call on a chunk returned summary s
ChunkReturn(s) ==
    /\ pc = "chunk_call"
    /\ EndCall(Returned(s))
    /\ summaries' = AddSummary(summaries, s)
    /\ pc' = "chunk_loop"
    /\ UNCHANGED <<cached, text, text_type, max_length, chunks, combined, error_msg,
                   result>>
    /\ UNCHANGED fnVars

\* faulty variant: a chunk whose call raised is skipped and the loop goes on
ChunkRaise_skip(e) ==
    /\ pc = "chunk_call"
    /\ EndCall(Raised)
    /\ summaries' = AddSummary(summaries, <<>>)
    /\ pc' = "chunk_loop"
    /\ UNCHANGED <<cached, text, text_type, max_length, chunks, combined, error_msg,
                   result>>
    /\ UNCHANGED fnVars

\* lines 68-73: the call on a chunk raised
ChunkRaise(e) ==
    /\ pc = "chunk_call"
    /\ EndCall(Raised)
    /\ Caught(e)
    /\ UNCHANGED <<cached, text, text_type, max_length, chunks, summaries, combined,
                   result>>
    /\ UNCHANGED fnVars

\* faulty variant: no shortcut for a single summary, it is treated as a
\* concatenation of one
Merge_nosingle ==
    /\ pc = "merge"
    /\ LET c == Combine(summaries)
       IN  IF summaries = <<>>
           THEN /\ Return(<<>>, None)
                /\ hist' = [hist EXCEPT !.merges = Append(@, summaries)]
                /\ UNCHANGED <<combined, inflight>>
           ELSE IF ShortEnough(c, max_length)
           THEN /\ Return(c, None)
                /\ hist' = [hist EXCEPT !.merges = Append(@, summaries)]
                /\ UNCHANGED <<combined, inflight>>
           ELSE /\ combined' = c
                /\ inflight' = <<c>>
                /\ hist' = [hist EXCEPT
                              !.merges = Append(@, summaries),
                              !.calls = Append(@, [kind |-> "merge",
                                                   input |-> c,
                                                   out |-> Pending])]
                /\ pc' = "merge_call"
                /\ UNCHANGED result
    /\ UNCHANGED <<cached, text, text_type, max_length, chunks, summaries, error_msg>>
    /\ UNCHANGED fnVars

\* lines 77-79 and 172-188: merge_summaries up to its model call
Merge ==
    /\ pc = "merge"
    /\ LET c == Combine(summaries)
       IN  IF summaries = <<>>
           THEN /\ Return(<<>>, None)
                /\ hist' = [hist EXCEPT !.merges = Append(@, summaries)]
                /\ UNCHANGED <<combined, inflight>>
           ELSE IF Len(summaries) = 1
           THEN /\ Return(summaries[1], None)
                /\ hist' = [hist EXCEPT !.merges = Append(@, summaries)]
                /\ UNCHANGED <<combined, inflight>>
           ELSE IF ShortEnough(c, max_length)
           THEN /\ Return(c, None)
                /\ hist' = [hist EXCEPT !.merges = Append(@, summaries)]
                /\ UNCHANGED <<combined, inflight>>
           ELSE /\ combined' = c
                /\ inflight' = <<c>>
                /\ hist' = [hist EXCEPT
                              !.merges = Append(@, summaries),
                              !.calls = Append(@, [kind |-> "merge",
                                                   input |-> c,
                                                   out |-> Pending])]
                /\ pc' = "merge_call"
                /\ UNCHANGED result
    /\ UNCHANGED <<cached, text, text_type, max_length, chunks, summaries, error_msg>>
    /\ UNCHANGED fnVars

\* lines 188-194 and 79: the second pass returned summary s; calling a handle
\* that is None raises TypeError, so a return needs a handle
MergeReturn(s) ==
    /\ pc = "merge_call"
    /\ cached # "none"
    /\ EndCall(Returned(s))
    /\ Return(s, None)
    /\ UNCHANGED <<cached, text, text_type, max_length, chunks, summaries, combined,
                   error_msg>>
    /\ UNCHANGED fnVars

\* lines 195-199 and 79: the second pass raised, caught inside merge_summaries
MergeRaise(e) ==
    /\ pc = "merge_call"
    /\ EndCall(Raised)
    /\ Return(Truncate(combined, max_length), None)
    /\ UNCHANGED <<cached, text, text_type, max_length, chunks, summaries, combined,
                   error_msg>>
    /\ UNCHANGED fnVars

\* faulty variant: the failure carries the message of the fallback's exception
Except_fallbackmsg ==
    /\ pc = "except"
    /\ IF text_type = "str"
       THEN /\ hist' = [hist EXCEPT !.fallbacks = @ + 1]
            /\ Return(_extractive_fallback(text, NUM_SENTENCES), None)
       ELSE /\ hist' = [hist EXCEPT !.fallbacks = @ + 1,
                                    !.fallbackRaised = TRUE]
            /\ Return(<<>>, Some(ErrorMsg(PatternTypeError)))
    /\ UNCHANGED <<cached, text, text_type, max_length, chunks, summaries,
                   combined, inflight, error_msg>>
    /\ UNCHANGED fnVars

\* lines 93-104: the handler; on a str the fallback itself does not raise, on
\* bytes its re.split (line 215) raises and line 104 returns "", error_msg
Except ==
    /\ pc = "except"
    /\ IF text_type = "str"
       THEN /\ hist' = [hist EXCEPT !.fallbacks = @ + 1]
            /\ Return(_extractive_fallback(text, NUM_SENTENCES), None)
       ELSE /\ hist' = [hist EXCEPT !.fallbacks = @ + 1,
                                    !.fallbackRaised = TRUE]
            /\ Return(<<>>, Some(error_msg))
    /\ UNCHANGED <<cached, text, text_type, max_length, chunks, summaries, combined,
                   inflight, error_msg>>
    /\ UNCHANGED fnVars

\* the caller has the pair; the frame of summarize and its locals are gone
ReturnToCaller ==
    /\ pc = "return"
    /\ pc' = "idle"
    /\ text' = <<>>
    /\ text_type' = "str"
    /\ max_length' = DEFAULT_MAX_LENGTH
    /\ chunks' = <<>>
    /\ summaries' = <<>>
    /\ combined' = <<>>
    /\ inflight' = <<>>
    /\ error_msg' = None
    /\ hist' = IdleHist
    /\ UNCHANGED <<cached, result>>
    /\ UNCHANGED fnVars

\* clear_pipeline_cache(), between two calls of summarize
ClearPipelineCache ==
    /\ pc = "idle"
    /\ cached' = "none"
    /\ UNCHANGED <<pc, text, text_type, max_length, chunks, summaries, combined, inflight,
                   error_msg, result, hist>>
    /\ UNCHANGED fnVars

\* get_pipeline_info()['is_loaded']
is_loaded == cached # "none"

Next ==
    \/ \E a \in Arguments, ml \in MaxLengths : Summarize(a.text, a.type, ml)
    \/ Validate
    \/ InitPipeline
    \/ LoadOk
    \/ \E e \in LoadErrors : LoadRaise(e)
    \/ Estimate
    \/ \E s \in ModelOutputs : DirectReturn(s)
    \/ \E e \in CallErrors : DirectRaise(e)
    \/ ChunkLoopStep
    \/ \E s \in ModelOutputs : ChunkReturn(s)
    \/ \E e \in CallErrors : ChunkRaise(e)
    \/ Merge
    \/ \E s \in ModelOutputs : MergeReturn(s)
    \/ \E e \in CallErrors : MergeRaise(e)
    \/ Except
    \/ ReturnToCaller
    \/ ClearPipelineCache

Spec == Init /\ [][Next]_vars

-----------------------------------------------------------------------------
(* chunk_text on its own: every text up to MaxLen, every max_tokens up to MaxTok *)

Alphabet == {"a", "b", ".", " "}

TextsUpTo(n) == UNION {[1..k -> Alphabet] : k \in 0..n}

ChunkInit ==
    /\ cached = "none"
    /\ pc = "idle"
    /\ text = <<>>
    /\ text_type = "str"
    /\ max_length = DEFAULT_MAX_LENGTH
    /\ chunks = <<>>
    /\ summaries = <<>>
    /\ combined = <<>>
    /\ inflight = <<>>
    /\ error_msg = None
    /\ result = NoResult
    /\ hist = IdleHist
    /\ arg_text \in TextsUpTo(MaxLen)
    /\ arg_max_tokens \in 1..MaxTok
    /\ ret = <<>>
    /\ export_fn = "none"
    /\ arg_transcript = <<>>
    /\ arg_summary = <<>>
    /\ export_ret = <<>>
    /\ NewIdle

\* chunks = chunk_text(arg_text, max_tokens=arg_max_tokens)
CallChunkText ==
    /\ ret = <<>>
    /\ ret' = <<chunk_text(arg_text, arg_max_tokens)>>
    /\ UNCHANGED <<arg_text, arg_max_tokens>>
    /\ UNCHANGED exportVars
    /\ UNCHANGED summVars
    /\ UNCHANGED newVars

ChunkNext == CallChunkText

ChunkSpec == ChunkInit /\ [][ChunkNext]_vars

-----------------------------------------------------------------------------
(* merge_summaries on its own: the call of line 77 over any list of up to   *)
(* MaxChunks summaries, with and without a cached handle                    *)

MaxChunks == 3     \* longest list of summaries given to merge_summaries
MaxMergeLen == 3   \* largest small max_length given to merge_summaries

\* summaries as a caller may pass them: model outputs, and one with irregular
\* whitespace
MergeSummaries == ModelOutputs \cup {<<"u", " ", " ", "v", "\n", "w">>}

SummaryLists == UNION {[1..k -> MergeSummaries] : k \in 0..MaxChunks}

MergeLengths == (0..MaxMergeLen) \cup {DEFAULT_MAX_LENGTH}

MergeInit ==
    /\ cached \in {"none", "pipe"}
    /\ pc = "merge"
    /\ text = <<>>
    /\ text_type = "str"
    /\ max_length \in MergeLengths
    /\ chunks = <<>>
    /\ summaries \in SummaryLists
    /\ combined = <<>>
    /\ inflight = <<>>
    /\ error_msg = None
    /\ result = NoResult
    /\ hist = FreshHist(cached)
    /\ arg_text = <<>>
    /\ arg_max_tokens = 1
    /\ ret = <<>>
    /\ export_fn = "none"
    /\ arg_transcript = <<>>
    /\ arg_summary = <<>>
    /\ export_ret = <<>>
    /\ NewIdle

MergeNext ==
    \/ Merge
    \/ \E s \in ModelOutputs : MergeReturn(s)
    \/ \E e \in CallErrors : MergeRaise(e)

MergeSpec == MergeInit /\ [][MergeNext]_vars

-----------------------------------------------------------------------------
(* export.py: validate_export_inputs, format_content, export_to_txt and     *)
(* export_to_pdf, each called on its own                                    *)

MaxExportLen == 2     \* longest transcript and summary given to the exports

\* para.strip()
Strip(t) ==
    LET nz == {i \in 1..Len(t) : ~IsWs(t[i])}
    IN  IF nz = {} THEN <<>>
        ELSE SubSeq(t, CHOOSE i \in nz : \A j \in nz : i <= j,
                       CHOOSE i \in nz : \A j \in nz : i >= j)

\* text.split('\n')
SplitLines(t) ==
    LET nl == SortedSeq({i \in 1..Len(t) : t[i] = "\n"}, Len(t))
        n  == Len(nl) + 1
    IN  [k \in 1..n |->
            SubSeq(t, IF k = 1 THEN 1 ELSE nl[k-1] + 1,
                      IF k = n THEN Len(t) ELSE nl[k] - 1)]

\* word counts and (1 - ws / wt) * 100 if wt > 0 else 0, kept as a fraction
Statistics(transcript, summary) ==
    LET wt == WordCount(transcript)
        ws == WordCount(summary)
    IN  [word_count_transcript |-> wt,
         word_count_summary |-> ws,
         compression_ratio |-> IF wt > 0
                               THEN [num |-> (wt - ws) * 100, den |-> wt]
                               ELSE [num |-> 0, den |-> 1]]

\* "=" * 80 and "-" * 80
Rule(c) == [i \in 1..80 |-> c]

\* format_content: the lines that are joined by "\n"; a literal is one
\* element, the arguments are their characters, datetime.now() is "<now>"
format_content(transcript, summary, include_timestamp) ==
    LET st == Statistics(transcript, summary)
    IN  << Rule("="), <<"MEETING SUMMARY REPORT">>, Rule("="), <<>> >>
        \o (IF include_timestamp
            THEN << <<"Generated on: ", "<now>">>, <<>> >>
            ELSE <<>>)
        \o << Rule("-"), <<"EXECUTIVE SUMMARY">>, Rule("-"), <<>>,
               summary, <<>>,
               Rule("-"), <<"FULL TRANSCRIPT">>, Rule("-"), <<>>,
               transcript, <<>>,
               Rule("-"), <<"STATISTICS">>, Rule("-"),
               <<"Transcript Word Count: ", st.word_count_transcript>>,
               <<"Summary Word Count: ", st.word_count_summary>>,
               <<"Compression Ratio: ", st.compression_ratio, "%">>,
               <<>>, Rule("=") >>

\* content.encode('utf-8')
Encode(content) == [encoding |-> "utf-8", lines |-> content]

\* export_to_txt: nothing in the try block raises on two str arguments, so
\* the bytes are returned whatever the arguments hold
export_to_txt(transcript, summary, include_timestamp) ==
    [raised |-> FALSE,
     bytes |-> Encode(format_content(transcript, summary, include_timestamp))]

Paragraph(t, style) == [kind |-> "Paragraph", text |-> t, style |-> style]
Spacer(h) == [kind |-> "Spacer", text |-> <<>>, style |-> h]

\* for para in text.split('\n'): if para.strip(): Paragraph(para.strip(), ...)
Paragraphs(t) ==
    LET kept == SelectSeq(SplitLines(t), LAMBDA para : ~Blank(para))
    IN  [k \in 1..Len(kept) |-> Paragraph(Strip(kept[k]), "CustomBody")]

\* the elements export_to_pdf hands to doc.build
PdfElements(transcript, summary) ==
    << Paragraph(<<"Meeting Summary Report">>, "CustomTitle"), Spacer(2),
       Paragraph(<<"Generated on ", "<now>">>, "Normal"), Spacer(3),
       Paragraph(<<"Executive Summary">>, "CustomHeading") >>
    \o Paragraphs(summary)
    \o << Spacer(3), Paragraph(<<"Full Transcript">>, "CustomHeading") >>
    \o Paragraphs(transcript)
    \o << Spacer(3), Paragraph(<<"Statistics">>, "CustomHeading"),
           Paragraph(<<Statistics(transcript, summary)>>, "CustomBody") >>

\* the messages of validate_export_inputs, as their words
TranscriptEmptyMsg == <<"Transcript", "is", "empty.", "Cannot", "export.">>
SummaryEmptyMsg == <<"Summary", "is", "empty.", "Cannot", "export.">>

\* faulty variant: the summary is checked before the transcript
validate_export_inputs_summaryfirst(transcript, summary) ==
    IF summary = <<>> \/ Blank(summary) THEN Some(SummaryEmptyMsg)
    ELSE IF transcript = <<>> \/ Blank(transcript)
    THEN Some(TranscriptEmptyMsg)
    ELSE None

\* validate_export_inputs
validate_export_inputs(transcript, summary) ==
    IF transcript = <<>> \/ Blank(transcript) THEN Some(TranscriptEmptyMsg)
    ELSE IF summary = <<>> \/ Blank(summary) THEN Some(SummaryEmptyMsg)
    ELSE None

ExportAlphabet == {"a", " ", "\n"}
ExportTexts == UNION {[1..k -> ExportAlphabet] : k \in 0..MaxExportLen}
ExportFunctions == {"validate_export_inputs", "export_to_txt", "export_to_pdf"}

\* what doc.build of reportlab can raise
BuildErrors == {"build failed"}

ExportInit ==
    /\ cached = "none"
    /\ pc = "idle"
    /\ text = <<>>
    /\ text_type = "str"
    /\ max_length = DEFAULT_MAX_LENGTH
    /\ chunks = <<>>
    /\ summaries = <<>>
    /\ combined = <<>>
    /\ inflight = <<>>
    /\ error_msg = None
    /\ result = NoResult
    /\ hist = IdleHist
    /\ arg_text = <<>>
    /\ arg_max_tokens = 1
    /\ ret = <<>>
    /\ export_fn \in ExportFunctions
    /\ arg_transcript \in ExportTexts
    /\ arg_summary \in ExportTexts
    /\ export_ret = <<>>
    /\ NewIdle

\* error = validate_export_inputs(arg_transcript, arg_summary)
CallValidateExportInputs ==
    /\ export_fn = "validate_export_inputs"
    /\ export_ret = <<>>
    /\ export_ret' = <<validate_export_inputs(arg_transcript, arg_summary)>>
    /\ UNCHANGED <<export_fn, arg_transcript, arg_summary>>
    /\ UNCHANGED <<arg_text, arg_max_tokens, ret>>
    /\ UNCHANGED summVars
    /\ UNCHANGED newVars

\* export_to_txt(arg_transcript, arg_summary)
CallExportToTxt ==
    /\ export_fn = "export_to_txt"
    /\ export_ret = <<>>
    /\ export_ret' = <<export_to_txt(arg_transcript, arg_summary, TRUE)>>
    /\ UNCHANGED <<export_fn, arg_transcript, arg_summary>>
    /\ UNCHANGED <<arg_text, arg_max_tokens, ret>>
    /\ UNCHANGED summVars
    /\ UNCHANGED newVars

\* export_to_pdf(arg_transcript, arg_summary): doc.build returned
ExportToPdfReturn ==
    /\ export_fn = "export_to_pdf"
    /\ export_ret = <<>>
    /\ export_ret' = <<[raised |-> FALSE,
                        bytes |-> [pdf |-> PdfElements(arg_transcript,
                                                       arg_summary)]]>>
    /\ UNCHANGED <<export_fn, arg_transcript, arg_summary>>
    /\ UNCHANGED <<arg_text, arg_max_tokens, ret>>
    /\ UNCHANGED summVars
    /\ UNCHANGED newVars

\* export_to_pdf(arg_transcript, arg_summary): doc.build raised e, re-raised
\* as Exception("Error creating PDF file: ...")
ExportToPdfRaise(e) ==
    /\ export_fn = "export_to_pdf"
    /\ export_ret = <<>>
    /\ export_ret' = <<[raised |-> TRUE,
                        message |-> <<"Error", "creating", "PDF", "file:", e>>]>>
    /\ UNCHANGED <<export_fn, arg_transcript, arg_summary>>
    /\ UNCHANGED <<arg_text, arg_max_tokens, ret>>
    /\ UNCHANGED summVars
    /\ UNCHANGED newVars

ExportNext ==
    \/ CallValidateExportInputs
    \/ CallExportToTxt
    \/ ExportToPdfReturn
    \/ \E e \in BuildErrors : ExportToPdfRaise(e)

ExportSpec == ExportInit /\ [][ExportNext]_vars

-----------------------------------------------------------------------------
(* transcribe.py: transcribe with convert_to_wav, the recognizer cache and  *)
(* the temporary WAV files on disk                                          *)

MaxFiles == 2      \* most temporary files on disk at the same time

\* summarize.py and export.py at rest
OldIdle ==
    /\ cached = "none"
    /\ pc = "idle"
    /\ text = <<>>
    /\ text_type = "str"
    /\ max_length = DEFAULT_MAX_LENGTH
    /\ chunks = <<>>
    /\ summaries = <<>>
    /\ combined = <<>>
    /\ inflight = <<>>
    /\ error_msg = None
    /\ result = NoResult
    /\ hist = IdleHist
    /\ arg_text = <<>>
    /\ arg_max_tokens = 1
    /\ ret = <<>>
    /\ export_fn = "none"
    /\ arg_transcript = <<>>
    /\ arg_summary = <<>>
    /\ export_ret = <<>>

\* valid_extensions
ValidExtensions == {".wav", ".mp3", ".m4a", ".flac", ".ogg"}

\* os.path.splitext(audio_path)[1].lower(), for the extensions used here
LowerExt(ext) == IF ext = ".MP3" THEN ".mp3" ELSE ext

\* the audio files transcribe is called on: whether the path exists, and
\* the extension of the path
AudioFiles == [exists : BOOLEAN, ext : {".wav", ".mp3", ".MP3", ".txt"}]

\* what recognize_google can return
RecognizedTexts == {<<>>, <<" ">>, <<"a", " ", "b", ".">>}

\* the exceptions of the recognition: sr.UnknownValueError, sr.RequestError
\* and any other
RecognizeErrors == {"UnknownValueError", "RequestError", "Exception"}
ConvertErrors == {"conversion failed"}

\* the error messages of transcribe, by their first words
NotFoundMsg == <<"Audio", "file", "not", "found">>
UnsupportedMsg == <<"Unsupported", "audio", "format">>
ConversionMsg(e) == <<"Audio", "conversion", "error:", e>>
EmptyTextMsg == <<"Transcription", "produced", "empty", "text">>
RecognizeMsg(k) ==
    IF k = "UnknownValueError" THEN <<"Could", "not", "understand", "audio.">>
    ELSE IF k = "RequestError" THEN <<"Could", "not", "request", "results">>
    ELSE <<"Transcription", "error:", k>>

\* tempfile.NamedTemporaryFile: a name that no file has
FreshFile == CHOOSE f \in 1..(MaxFiles + 1) : f \notin files

\* a return statement inside the try block: the finally clause runs next
TReturn(t, e) == [tr EXCEPT !.ret = <<t, e>>, !.pc = "finally"]

\* transcribe(audio_path) is called on audio file a
Transcribe(a) ==
    /\ tr.pc = "idle"
    /\ Cardinality(files) < MaxFiles
    /\ tr' = [IdleFrame EXCEPT !.pc = "validate", !.audio = a]
    /\ last_call' = "transcribe"
    /\ UNCHANGED <<cached_recognizer, files, model_info>>
    /\ UNCHANGED oldVars

\* lines 96-107: the path must exist and have a supported extension
TValidate ==
    /\ tr.pc = "validate"
    /\ tr' = IF ~tr.audio.exists THEN TReturn(<<>>, Some(NotFoundMsg))
             ELSE IF LowerExt(tr.audio.ext) \notin ValidExtensions
             THEN TReturn(<<>>, Some(UnsupportedMsg))
             ELSE [tr EXCEPT !.pc = "convert"]
    /\ UNCHANGED <<cached_recognizer, files, last_call, model_info>>
    /\ UNCHANGED oldVars

\* lines 39-40 and 110-116: a WAV file is used as it is
ConvertPassThrough ==
    /\ tr.pc = "convert"
    /\ LowerExt(tr.audio.ext) = ".wav"
    /\ tr' = [tr EXCEPT !.pc = "recognize"]
    /\ UNCHANGED <<cached_recognizer, files, last_call, model_info>>
    /\ UNCHANGED oldVars

\* lines 45-62, 72-75 and 111-112: loading the audio or creating the
\* temporary file raised; no file was created
ConvertLoadRaise(e) ==
    /\ tr.pc = "convert"
    /\ LowerExt(tr.audio.ext) # ".wav"
    /\ tr' = TReturn(<<>>, Some(ConversionMsg(e)))
    /\ UNCHANGED <<cached_recognizer, files, last_call, model_info>>
    /\ UNCHANGED oldVars

\* lines 45-64: the audio is loaded and the temporary WAV file is created
ConvertCreateTemp ==
    /\ tr.pc = "convert"
    /\ LowerExt(tr.audio.ext) # ".wav"
    /\ files' = files \cup {FreshFile}
    /\ tr' = [tr EXCEPT !.pc = "export", !.conv_file = <<FreshFile>>,
                        !.made = @ \cup {FreshFile}]
    /\ UNCHANGED <<cached_recognizer, last_call, model_info>>
    /\ UNCHANGED oldVars

\* lines 67-70 and 110-116: the export succeeded, transcribe records the
\* path of the temporary file
ConvertExportOk ==
    /\ tr.pc = "export"
    /\ tr' = [tr EXCEPT !.pc = "recognize", !.temp_wav_path = tr.conv_file]
    /\ UNCHANGED <<cached_recognizer, files, last_call, model_info>>
    /\ UNCHANGED oldVars

\* lines 67, 72-75 and 111-112: audio.export raised; convert_to_wav returns
\* "", error_msg and transcribe returns before line 116
ConvertExportRaise(e) ==
    /\ tr.pc = "export"
    /\ tr' = TReturn(<<>>, Some(ConversionMsg(e)))
    /\ UNCHANGED <<cached_recognizer, files, last_call, model_info>>
    /\ UNCHANGED oldVars

\* lines 119-143: the recognizer is created if there is none; the
\* recognition returned text t
RecognizeReturn(t) ==
    /\ tr.pc = "recognize"
    /\ cached_recognizer' = "recognizer"
    /\ tr' = IF t = <<>> THEN TReturn(<<>>, Some(EmptyTextMsg))
             ELSE TReturn(t, None)
    /\ UNCHANGED <<files, last_call, model_info>>
    /\ UNCHANGED oldVars

\* lines 119-135 and 145-156: reading the audio or the recognition raised
RecognizeRaise(k) ==
    /\ tr.pc = "recognize"
    /\ cached_recognizer' = "recognizer"
    /\ tr' = TReturn(<<>>, Some(RecognizeMsg(k)))
    /\ UNCHANGED <<files, last_call, model_info>>
    /\ UNCHANGED oldVars

\* line 159: temp_wav_path and os.path.exists(temp_wav_path)
HasTempFile == tr.temp_wav_path # <<>> /\ tr.temp_wav_path[1] \in files

\* lines 157-162: the temporary file is deleted
FinallyUnlink ==
    /\ tr.pc = "finally"
    /\ HasTempFile
    /\ files' = files \ {tr.temp_wav_path[1]}
    /\ tr' = [tr EXCEPT !.pc = "return"]
    /\ UNCHANGED <<cached_recognizer, last_call, model_info>>
    /\ UNCHANGED oldVars

\* lines 161-164: os.unlink raised; a warning is logged
FinallyUnlinkRaise ==
    /\ tr.pc = "finally"
    /\ HasTempFile
    /\ tr' = [tr EXCEPT !.pc = "return"]
    /\ UNCHANGED <<cached_recognizer, files, last_call, model_info>>
    /\ UNCHANGED oldVars

\* line 159: transcribe knows of no temporary file
FinallySkip ==
    /\ tr.pc = "finally"
    /\ ~HasTempFile
    /\ tr' = [tr EXCEPT !.pc = "return"]
    /\ UNCHANGED <<cached_recognizer, files, last_call, model_info>>
    /\ UNCHANGED oldVars

\* the caller has the pair; the frame is gone, the files on disk stay
TranscribeDone ==
    /\ tr.pc = "return"
    /\ tr' = IdleFrame
    /\ UNCHANGED <<cached_recognizer, files, last_call, model_info>>
    /\ UNCHANGED oldVars

\* clear_model_cache()
ClearModelCache ==
    /\ tr.pc = "idle"
    /\ cached_recognizer' = "none"
    /\ last_call' = "clear_model_cache"
    /\ UNCHANGED <<tr, files, model_info>>
    /\ UNCHANGED oldVars

\* get_cached_model_info(); after_clear records that the call before it was
\* clear_model_cache()
GetCachedModelInfo ==
    /\ tr.pc = "idle"
    /\ model_info' = <<[model_name |-> Some("SpeechRecognition"),
                        is_loaded |-> cached_recognizer # "none",
                        after_clear |-> last_call = "clear_model_cache"]>>
    /\ last_call' = "get_cached_model_info"
    /\ UNCHANGED <<cached_recognizer, tr, files>>
    /\ UNCHANGED oldVars

TransInit == OldIdle /\ TransIdle /\ LateIdle

TransNext ==
    \/ \E a \in AudioFiles : Transcribe(a)
    \/ TValidate
    \/ ConvertPassThrough
    \/ \E e \in ConvertErrors : ConvertLoadRaise(e)
    \/ ConvertCreateTemp
    \/ ConvertExportOk
    \/ \E e \in ConvertErrors : ConvertExportRaise(e)
    \/ \E t \in RecognizedTexts : RecognizeReturn(t)
    \/ \E k \in RecognizeErrors : RecognizeRaise(k)
    \/ FinallyUnlink
    \/ FinallyUnlinkRaise
    \/ FinallySkip
    \/ TranscribeDone
    \/ ClearModelCache
    \/ GetCachedModelInfo

TransSpec == TransInit /\ [][TransNext]_vars

-----------------------------------------------------------------------------
(* config.py and app.py: the configured summary lengths, process_audio and  *)
(* the transcript and summary kept in the session                           *)

MaxRuns == 3       \* most process_audio runs in one session

DEFAULT_MAX == 150   \* os.getenv('SUMMARY_MAX_LENGTH', '150')
DEFAULT_MIN == 50    \* os.getenv('SUMMARY_MIN_LENGTH', '50')

\* what the environment can hold for the two lengths: nothing, or an integer
EnvLengths == {DEFAULT_MIN, DEFAULT_MAX, DEFAULT_MAX + DEFAULT_MIN}
EnvValues == {<<>>} \cup {<<n>> : n \in EnvLengths}
Envs == [SUMMARY_MAX_LENGTH : EnvValues, SUMMARY_MIN_LENGTH : EnvValues]

\* int(os.getenv(name, default))
GetEnvInt(v, default) == IF v = <<>> THEN default ELSE v[1]

LengthsMsg == <<"SUMMARY_MIN_LENGTH", "must", "be", "less", "than", "SUMMARY_MAX_LENGTH">>

\* validate_config(): the errors it collects about the summary lengths
validate_config(mx, mn) ==
    LET errors == IF mn >= mx THEN <<LengthsMsg>> ELSE <<>>
    IN  [is_valid |-> Len(errors) = 0, errors |-> errors]

notAppVars == <<baseVars, concVars, fbVars>>

\* import config: the lengths are read, validated, and the errors are printed
ImportConfig ==
    /\ app.pc = "start"
    /\ LET mx == GetEnvInt(env.SUMMARY_MAX_LENGTH, DEFAULT_MAX)
           mn == GetEnvInt(env.SUMMARY_MIN_LENGTH, DEFAULT_MIN)
           v  == validate_config(mx, mn)
       IN  cfg' = <<[DEFAULT_SUMMARY_MAX_LENGTH |-> mx,
                     DEFAULT_SUMMARY_MIN_LENGTH |-> mn,
                     is_valid |-> v.is_valid,
                     printed |-> IF v.is_valid THEN <<>> ELSE v.errors]>>
    /\ app' = IdleRun(0)
    /\ UNCHANGED <<env, session, src, summ_args>>
    /\ UNCHANGED notAppVars

\* main calls process_audio(uploaded_file, model_size, max_length, min_length)
ProcessAudio ==
    /\ app.pc = "ready"
    /\ app.run < MaxRuns
    /\ app' = [app EXCEPT !.pc = "validate_file", !.run = @ + 1]
    /\ UNCHANGED <<env, cfg, session, src, summ_args>>
    /\ UNCHANGED notAppVars

\* utils.validate_audio_file rejects the file: return False
FileInvalid ==
    /\ app.pc = "validate_file"
    /\ app' = IdleRun(app.run)
    /\ UNCHANGED <<env, cfg, session, src, summ_args>>
    /\ UNCHANGED notAppVars

FileValid ==
    /\ app.pc = "validate_file"
    /\ app' = [app EXCEPT !.pc = "transcribe"]
    /\ UNCHANGED <<env, cfg, session, src, summ_args>>
    /\ UNCHANGED notAppVars

\* transcribe returns ("", error): return False
TranscribeError ==
    /\ app.pc = "transcribe"
    /\ app' = IdleRun(app.run)
    /\ UNCHANGED <<env, cfg, session, src, summ_args>>
    /\ UNCHANGED notAppVars

\* the texts transcribe returns without an error: it rejects only ""
TranscriptTexts == RecognizedTexts \ {<<>>}

\* transcribe returns (t, None): st.session_state.transcript = transcript_text
TranscribeOk(t) ==
    /\ app.pc = "transcribe"
    /\ session' = [session EXCEPT !.transcript = t]
    /\ src' = [src EXCEPT !.transcript = app.run]
    /\ app' = [app EXCEPT !.pc = "summarize", !.transcript_text = t]
    /\ UNCHANGED <<env, cfg, summ_args>>
    /\ UNCHANGED notAppVars

\* summarize(transcript_text, max_length=max_length, min_length=min_length)
\* with the values main read from config
CallSummarize ==
    /\ app.pc = "summarize"
    /\ summ_args' = <<[max_length |-> cfg[1].DEFAULT_SUMMARY_MAX_LENGTH,
                       min_length |-> cfg[1].DEFAULT_SUMMARY_MIN_LENGTH]>>
    /\ app' = [app EXCEPT !.pc = "summarizing"]
    /\ UNCHANGED <<env, cfg, session, src>>
    /\ UNCHANGED notAppVars

\* summarize returns ("", "Input text is empty"): return False
SummarizeError ==
    /\ app.pc = "summarizing"
    /\ IsEmptyInput(app.transcript_text)
    /\ app' = IdleRun(app.run)
    /\ UNCHANGED <<env, cfg, session, src, summ_args>>
    /\ UNCHANGED notAppVars

\* what summarize returns for a text it accepts: an output of the model or
\* the extractive fallback
AppSummaries(t) == ModelOutputs \cup {_extractive_fallback(t, NUM_SENTENCES)}

\* summarize returns (s, None): st.session_state.summary = summary_text
SummarizeOk(s) ==
    /\ app.pc = "summarizing"
    /\ ~IsEmptyInput(app.transcript_text)
    /\ session' = [session EXCEPT !.summary = s]
    /\ src' = [src EXCEPT !.summary = app.run]
    /\ app' = IdleRun(app.run)
    /\ UNCHANGED <<env, cfg, summ_args>>
    /\ UNCHANGED notAppVars

AppInit ==
    /\ OldIdle
    /\ TransIdle
    /\ ConcIdle
    /\ FbIdle
    /\ env \in Envs
    /\ cfg = <<>>
    /\ session = EmptySession
    /\ app = [pc |-> "start", run |-> 0, transcript_text |-> <<>>]
    /\ src = [transcript |-> 0, summary |-> 0]
    /\ summ_args = <<>>

AppNext ==
    \/ ImportConfig
    \/ ProcessAudio
    \/ FileInvalid
    \/ FileValid
    \/ TranscribeError
    \/ \E t \in TranscriptTexts : TranscribeOk(t)
    \/ CallSummarize
    \/ SummarizeError
    \/ \E s \in AppSummaries(app.transcript_text) : SummarizeOk(s)

AppSpec == AppInit /\ [][AppNext]_vars

-----------------------------------------------------------------------------
(* summarize called from several threads: the check of _cached_pipeline     *)
(* (line 48), pipeline(...) and the assignment (line 50), and the read of   *)
(* _cached_pipeline at the model call are separate steps of a thread, and   *)
(* nothing orders the steps of different threads                            *)

MaxCalls == 2      \* summarize calls of one thread

notConcVars == <<baseVars, appVars, fbVars>>

\* the instances some thread or the module still refers to
InUse ==
    (UNION {created, {conc_cached}, {th[t].mine : t \in Threads},
            UNION {{th[t].used[i] : i \in 1..Len(th[t].used)} : t \in Threads}})
        \ {0}

\* pipeline(...) returns a new object
NewPipeline == CHOOSE n \in 1..(Cardinality(InUse) + 1) : n \notin InUse

\* thread t calls summarize on a text that passes validation (lines 42-45)
ThreadSummarize(t) ==
    /\ th[t].pc = "idle"
    /\ th[t].left > 0
    /\ th' = [th EXCEPT ![t].pc = "check", ![t].left = @ - 1]
    /\ UNCHANGED <<conc_cached, created>>
    /\ UNCHANGED notConcVars

\* line 48: if _cached_pipeline is None
ThreadCheck(t) ==
    /\ th[t].pc = "check"
    /\ th' = [th EXCEPT ![t].pc = IF conc_cached = 0 THEN "load" ELSE "call"]
    /\ UNCHANGED <<conc_cached, created>>
    /\ UNCHANGED notConcVars

\* lines 50-54: pipeline(...) returns an instance
ThreadLoadOk(t) ==
    /\ th[t].pc = "load"
    /\ th' = [th EXCEPT ![t].pc = "assign", ![t].mine = NewPipeline]
    /\ created' = created \cup {NewPipeline}
    /\ UNCHANGED conc_cached
    /\ UNCHANGED notConcVars

\* lines 50-54: pipeline(...) raises; the handler returns the fallback
ThreadLoadRaise(t) ==
    /\ th[t].pc = "load"
    /\ th' = [th EXCEPT ![t].pc = "done"]
    /\ UNCHANGED <<conc_cached, created>>
    /\ UNCHANGED notConcVars

\* line 50: _cached_pipeline = <the instance>
ThreadAssign(t) ==
    /\ th[t].pc = "assign"
    /\ conc_cached' = th[t].mine
    /\ th' = [th EXCEPT ![t].pc = "call"]
    /\ UNCHANGED created
    /\ UNCHANGED notConcVars

\* lines 67 and 83: _cached_pipeline(...) reads the global when the call is
\* made; calling None raises TypeError and the handler returns the fallback
ThreadModelCall(t) ==
    /\ th[t].pc = "call"
    /\ th' = [th EXCEPT ![t].pc = "done",
                        ![t].used = IF conc_cached = 0 THEN <<>>
                                    ELSE <<conc_cached>>]
    /\ UNCHANGED <<conc_cached, created>>
    /\ UNCHANGED notConcVars

\* summarize returns to the caller of thread t
ThreadReturn(t) ==
    /\ th[t].pc = "done"
    /\ th' = [th EXCEPT ![t] = IdleThread(th[t].left)]
    /\ UNCHANGED <<conc_cached, created>>
    /\ UNCHANGED notConcVars

\* clear_pipeline_cache(), from any thread at any time
ThreadClear ==
    /\ conc_cached # 0
    /\ conc_cached' = 0
    /\ created' = {}
    /\ UNCHANGED th
    /\ UNCHANGED notConcVars

ConcInit ==
    /\ OldIdle
    /\ TransIdle
    /\ AppIdle
    /\ FbIdle
    /\ conc_cached = 0
    /\ th = [t \in Threads |-> IdleThread(MaxCalls)]
    /\ created = {}

ConcNext ==
    \/ \E t \in Threads : ThreadSummarize(t)
    \/ \E t \in Threads : ThreadCheck(t)
    \/ \E t \in Threads : ThreadLoadOk(t)
    \/ \E t \in Threads : ThreadLoadRaise(t)
    \/ \E t \in Threads : ThreadAssign(t)
    \/ \E t \in Threads : ThreadModelCall(t)
    \/ \E t \in Threads : ThreadReturn(t)
    \/ ThreadClear

ConcSpec == ConcInit /\ [][ConcNext]_vars

-----------------------------------------------------------------------------
(* _extractive_fallback on its own, over every text of up to MaxLen         *)
(* characters and num_sentences from 0 to MaxNumSentences                   *)

MaxNumSentences == 3   \* largest num_sentences given to _extractive_fallback

FallbackInit ==
    /\ OldIdle
    /\ TransIdle
    /\ AppIdle
    /\ ConcIdle
    /\ fb_text \in TextsUpTo(MaxLen)
    /\ fb_num_sentences \in 0..MaxNumSentences
    /\ fb_ret = <<>>

\* _extractive_fallback(fb_text, num_sentences=fb_num_sentences)
CallExtractiveFallback ==
    /\ fb_ret = <<>>
    /\ fb_ret' = <<_extractive_fallback(fb_text, fb_num_sentences)>>
    /\ UNCHANGED <<fb_text, fb_num_sentences>>
    /\ UNCHANGED <<baseVars, appVars, concVars>>

FallbackNext == CallExtractiveFallback

FallbackSpec == FallbackInit /\ [][FallbackNext]_vars

-----------------------------------------------------------------------------
(* Properties of summarize, checked under Spec *)

CallsRaised == {i \in 1..Len(hist.calls) : hist.calls[i].out.status = "raise"}
CallsOfKind(k) == {i \in 1..Len(hist.calls) : hist.calls[i].kind = k}

\* how far a call has come, and what is left of the loop over the chunks
Phase ==
    CASE pc = "validate" -> 1
      [] pc = "init_pipeline" -> 2
      [] pc = "loading" -> 3
      [] pc = "estimate" -> 4
      [] pc \in {"direct_call", "chunk_loop", "chunk_call"} -> 5
      [] pc = "merge" -> 6
      [] pc = "merge_call" -> 7
      [] pc = "except" -> 8
      [] pc = "return" -> 9
      [] OTHER -> 0
LoopLeft ==
    2 * (Len(chunks) - Len(summaries)) + (IF pc = "chunk_loop" THEN 1 ELSE 0)

\* C1: summarize never raises to its caller: no exception leaves the call,
\* every step of a running call brings it nearer to its return statement
\* (a later phase, or less of the chunk loop left), so the call terminates,
\* and what it returns is a (summary_text, error) pair.
C1_SummarizeAlwaysReturns ==
    /\ [](pc # "raised" /\ (pc = "return" => Len(result) = 2))
    /\ [][pc \notin {"idle", "return"} =>
            /\ pc' \notin {"idle", "raised"}
            /\ \/ Phase' > Phase
               \/ Phase' = Phase /\ LoopLeft' < LoopLeft /\ LoopLeft' >= 0]_vars

\* a call in which the model load succeeded, a chunk call raised, and
\* summarize is at its return statement
C1_Witness ==
    /\ pc = "return"
    /\ hist.loads = 1 /\ ~hist.loadRaised
    /\ CallsRaised \cap CallsOfKind("chunk") # {}

\* C2: every returned pair (s, e) has exactly one side populated: s non-empty
\* and e none, or s empty and e a message.
C2_ExactlyOneSide ==
    pc = "return" =>
        \/ result[1] # <<>> /\ result[2] = None
        \/ result[1] = <<>> /\ result[2] # None

\* the first three sentences of t (all of them when there are fewer), joined
\* by single spaces
C3_FirstThree(t) ==
    LET s == ReSplit(t)
    IN  IF Len(s) <= 3 THEN Join(s) ELSE Join(<<s[1], s[2], s[3]>>)

\* C3: when every model call of the execution raised, summarize on a text
\* (a str) that is not blank returns (first 3 sentences of the text, none).
C3_FallbackFirstThree ==
    (pc = "return" /\ text_type = "str" /\ ~Blank(text)
       /\ CallsRaised = DOMAIN hist.calls)
        => result = <<C3_FirstThree(text), None>>

\* an over-budget text whose first chunk call raised; the pair is returned
C3_Witness ==
    /\ pc = "return"
    /\ WordCount(text) > 787
    /\ Len(hist.calls) = 1 /\ hist.calls[1].out.status = "raise"
    /\ result[2] = None /\ result[1] # <<>>

C4_MentionsEmpty(msg) == \E i \in 1..Len(msg) : msg[i] = "empty"

\* C4: on an empty or whitespace-only text summarize returns ("", error) with
\* an error mentioning "empty"; no model load and no model call was attempted
\* and the cached handle is as it was when the call started.
C4_EmptyInputRejected ==
    (pc = "return" /\ Blank(text)) =>
        /\ result[1] = <<>>
        /\ result[2] # None
        /\ C4_MentionsEmpty(result[2][1])
        /\ hist.loads = 0
        /\ hist.calls = <<>>
        /\ hist.chunker = 0 /\ hist.merges = <<>> /\ hist.fallbacks = 0
        /\ cached = hist.cached0

\* a whitespace-only text rejected while the handle is uninitialized
C4_Witness ==
    /\ pc = "return"
    /\ text # <<>> /\ Blank(text)
    /\ cached = "none"
    /\ result = <<<<>>, Some(EmptyMsg)>>

C10_SequentialChunkCalls ==
    hist.chunker = 1 =>
        LET cc == CallsOfKind("chunk")
            n  == Cardinality(cc)
        IN  /\ cc = 1..n /\ n <= Len(chunks)
            /\ \A i \in cc : hist.calls[i].input = chunks[i]
            /\ \A i \in 1..Len(hist.calls) :
                  hist.calls[i].out.status # "ok" => i = Len(hist.calls)
            /\ Len(summaries) <= n
            /\ \A i \in 1..Len(summaries) :
                  hist.calls[i].out = Returned(summaries[i])
            /\ Len(hist.merges) <= 1
            /\ hist.merges # <<>> =>
                  /\ n = Len(chunks)
                  /\ hist.merges[1] = [i \in 1..n |-> hist.calls[i].out.summary]
                  /\ \A i \in 1..n : hist.calls[i].out.status = "ok"
            /\ CallsOfKind("merge") # {} => hist.merges # <<>>
            /\ (pc = "return" /\ hist.fallbacks = 0) => Len(hist.merges) = 1
            /\ (pc = "return" /\ hist.fallbacks = 1) => hist.merges = <<>>

\* a chunked run over two different chunks whose calls returned different
\* summaries, merged and returned
C10_Witness ==
    /\ pc = "return"
    /\ Len(chunks) >= 2 /\ chunks[1] # chunks[2]
    /\ Len(summaries) = Len(chunks) /\ summaries[1] # summaries[2]
    /\ Len(hist.merges) = 1

\* C14: every text handed to the model during a summarize execution, by the
\* direct call, a per-chunk call or the second pass of the merge, has an
\* estimate word_count * 1.3 of at most 1024.
C14_TokenBudgetPerCall ==
    \A i \in 1..Len(hist.calls) :
        Est10(hist.calls[i].input) <= MAX_TOKENS * 10

\* what every reading of the lifecycle shares: a call loads the model at most
\* once and only when it found no handle; a handle appears only in such a
\* call, on a text that is not blank; it disappears only in
\* clear_pipeline_cache, after which is_loaded is false
C15_Step ==
    /\ (cached = "none" /\ cached' = "pipe") =>
          /\ pc = "loading" /\ ~Blank(text)
          /\ hist.cached0 = "none" /\ hist.loads = 1
    /\ (cached = "pipe" /\ cached' = "none") =>
          /\ pc = "idle" /\ pc' = "idle"
          /\ ~is_loaded'
C15_Transitions ==
    /\ [](hist.loads <= 1 /\ (hist.cached0 = "pipe" => hist.loads = 0))
    /\ [][C15_Step]_vars

\* C15 as stated: the first call on a text that is not blank that finds no
\* handle creates it, so such a call always returns with the handle cached.
C15_LifecycleAsStated ==
    /\ C15_Transitions
    /\ []((pc = "return" /\ ~Blank(text) /\ hist.cached0 = "none")
             => is_loaded)

\* C15 (amended): a call on a text that is not blank that finds no handle
\* attempts the load once and returns with the handle cached unless the load
\* raised, in which case there is still no handle; a call that finds a handle
\* reuses it; only clear_pipeline_cache removes it.
C15_Lifecycle ==
    /\ C15_Transitions
    /\ []((pc = "return" /\ ~Blank(text) /\ hist.cached0 = "none")
             => /\ hist.loads = 1
                /\ is_loaded = ~hist.loadRaised)
    /\ []((pc = "return" /\ hist.cached0 = "pipe") => is_loaded)

\* a call that found no handle, created it and made a model call with it
C15_Witness ==
    /\ pc = "return"
    /\ hist.cached0 = "none" /\ hist.loads = 1
    /\ is_loaded
    /\ hist.calls # <<>>

\* a later call that found the handle and used it without loading
C15_WitnessReuse ==
    /\ pc = "return"
    /\ hist.cached0 = "pipe" /\ hist.loads = 0
    /\ hist.calls # <<>>

\* messages of the exceptions a step from position p can raise into the
\* handler
C16_Raisable(p) ==
    IF p = "loading" THEN LoadErrors
    ELSE IF p = "estimate"
    THEN {PatternTypeError, "range() arg 3 must not be zero"}
    ELSE CallErrors

\* entering the handler fixes the message of the original exception; leaving
\* it gives ("", that message) when the fallback raised and otherwise
\* (first 3 sentences, none)
C16_Step ==
    /\ (pc # "except" /\ pc' = "except") =>
          \E e \in C16_Raisable(pc) :
              error_msg' = <<"Summarization", "error:", e>>
    /\ pc = "except" =>
          /\ pc' = "return"
          /\ hist'.fallbacks = 1
          /\ IF hist'.fallbackRaised
             THEN result' = <<<<>>, <<error_msg>>>>
             ELSE result' = <<C3_FirstThree(text), None>>

\* C16: when the original path raised and the fallback raises too, summarize
\* returns ("", message) with the message of the original exception, not of
\* the fallback's; in every other case where the original path raised it
\* returns (fallback summary, none).
C16_TerminalFailure ==
    /\ [][C16_Step]_vars
    /\ []((pc = "return" /\ hist.fallbackRaised) =>
             /\ result[1] = <<>>
             /\ result[2] # None
             /\ result[2][1] = error_msg)
    /\ []((pc = "return" /\ hist.fallbacks = 1 /\ ~hist.fallbackRaised) =>
             result = <<C3_FirstThree(text), None>>)

\* a model call raised, then the fallback raised with another message: the
\* pair holds the message of the model call
C16_Witness ==
    /\ pc = "return"
    /\ hist.fallbackRaised
    /\ CallsRaised # {}
    /\ result = <<<<>>, Some(ErrorMsg("model failed"))>>

-----------------------------------------------------------------------------
(* Properties of chunk_text, checked under ChunkSpec *)

ChunksReturned == ret # <<>> /\ ~ret[1].raised

\* C6: for every text and max_tokens >= 1 chunk_text returns normally and the
\* words of the chunks, read in order, are the words of the text.
C6_WordPreservation ==
    ret # <<>> =>
        /\ ~ret[1].raised
        /\ Split(Join(ret[1].chunks)) = Split(arg_text)

\* C7: every chunk the hard split did not make has an estimate <= max_tokens.
C7_SizeBound ==
    ChunksReturned =>
        \A k \in 1..Len(ret[1].chunks) :
            ~ret[1].origin[k].hard =>
                WordCount(ret[1].chunks[k]) * 13 <= arg_max_tokens * 10

\* C8: a sentence whose own estimate exceeds max_tokens is always hard-split
\* into groups of at most int(max_tokens / 1.3) words; it is never inside a
\* chunk whole.
C8_OversizedAlwaysSplit ==
    ChunksReturned =>
        \A k \in 1..Len(ret[1].chunks) :
            \A j \in 1..Len(ret[1].origin[k].sents) :
                WordCount(ret[1].origin[k].sents[j]) * 13 > arg_max_tokens * 10
                    => /\ ret[1].origin[k].hard
                       /\ WordCount(ret[1].chunks[k]) * 13 <= arg_max_tokens * 10

\* C9: for a non-empty text every returned chunk holds at least one word.
C9_NoEmptyChunk ==
    (ChunksReturned /\ arg_text # <<>>) =>
        \A k \in 1..Len(ret[1].chunks) : WordCount(ret[1].chunks[k]) >= 1

\* every whitespace that follows '.', '!' or '?' is one space followed by a
\* character that is not whitespace, and the text does not end in whitespace
C19_SingleSpaced(t) ==
    /\ \A i \in 2..Len(t) :
          (t[i] \in {" ", "\t", "\n"} /\ t[i-1] \in {".", "!", "?"}) =>
              /\ t[i] = " "
              /\ i < Len(t) /\ t[i+1] \notin {" ", "\t", "\n"}
    /\ t # <<>> => t[Len(t)] \notin {" ", "\t", "\n"}

C20_EmptyText ==
    (ret # <<>> /\ arg_text = <<>>) =>
        /\ ~ret[1].raised
        /\ ret[1].chunks \in {<<>>, << <<>> >>}

\* the empty text with max_tokens = 1, where the hard split would raise
C20_Witness ==
    /\ ChunksReturned
    /\ arg_text = <<>> /\ arg_max_tokens = 1
    /\ ret[1].chunks = << <<>> >>

-----------------------------------------------------------------------------
(* Properties of merge_summaries, checked under MergeSpec.  result[1] is    *)
(* what merge_summaries returned.                                           *)

MergeDone == pc = "return" /\ Len(hist.merges) = 1

\* C11: merge_summaries([]) returns "" and merge_summaries([s]) returns s
\* unchanged, whatever max_length is; in both cases no model call is made and
\* the cached handle is as it was.
C11_MergeIdentity ==
    /\ Len(summaries) <= 1 => (pc # "merge_call" /\ hist.calls = <<>>)
    /\ (MergeDone /\ Len(summaries) = 0) =>
          (result[1] = <<>> /\ cached = hist.cached0)
    /\ (MergeDone /\ Len(summaries) = 1) =>
          (result[1] = summaries[1] /\ cached = hist.cached0)

\* a single summary of more words than max_length, returned unchanged while
\* no handle exists
C11_Witness ==
    /\ MergeDone
    /\ Len(summaries) = 1
    /\ WordCount(summaries[1]) > max_length
    /\ cached = "none"
    /\ result[1] = summaries[1]

\* the summaries with one space between neighbours
RECURSIVE C12_Concat(_)
C12_Concat(l) ==
    IF l = <<>> THEN <<>>
    ELSE IF Len(l) = 1 THEN l[1]
    ELSE l[1] \o <<" ">> \o C12_Concat(Tail(l))

\* C12: two or more summaries whose single-space concatenation has at most
\* max_length words: that concatenation is returned and no model call is made.
C12_ShortConcatenation ==
    (Len(summaries) >= 2
       /\ Len(Split(C12_Concat(summaries))) <= max_length) =>
        /\ pc # "merge_call" /\ hist.calls = <<>>
        /\ MergeDone => result[1] = C12_Concat(summaries)

\* two summaries whose concatenation has exactly max_length words, returned
C12_Witness ==
    /\ MergeDone
    /\ Len(summaries) = 2
    /\ summaries[1] # <<>> /\ summaries[2] # <<>>
    /\ WordCount(C12_Concat(summaries)) = max_length
    /\ result[1] = C12_Concat(summaries)

\* the first n words of c with one space between neighbours
C13_Prefix(c, n) ==
    LET w == Split(c)
    IN  C12_Concat([i \in 1..(IF n < Len(w) THEN n ELSE Len(w)) |-> w[i]])

\* C13: two or more summaries whose concatenation has more than max_length
\* words, max_length >= 1: merge_summaries does not raise; it attempts one
\* model call, over the whole concatenation; when the call returns, its
\* output is the result; when it raises, which it does when there is no
\* handle, the result is the first max_length words of the concatenation
\* joined by single spaces.
C13_SecondPass ==
    (Len(summaries) >= 2 /\ max_length >= 1
       /\ Len(Split(C12_Concat(summaries))) > max_length) =>
        /\ pc \in {"merge", "merge_call", "return"}
        /\ pc # "merge" =>
              /\ Len(hist.calls) = 1
              /\ hist.calls[1].input = C12_Concat(summaries)
        /\ pc = "return" =>
              /\ hist.calls[1].out.status \in {"ok", "raise"}
              /\ hist.cached0 = "none" => hist.calls[1].out.status = "raise"
              /\ hist.calls[1].out.status = "ok" =>
                    result[1] = hist.calls[1].out.summary
              /\ hist.calls[1].out.status = "raise" =>
                    result[1] = C13_Prefix(C12_Concat(summaries), max_length)

\* the call was attempted without a handle; the result is a two-word prefix
\* that differs from the concatenation
C13_Witness ==
    /\ MergeDone
    /\ Len(summaries) >= 2 /\ max_length = 2
    /\ cached = "none"
    /\ Len(hist.calls) = 1 /\ hist.calls[1].out.status = "raise"
    /\ WordCount(result[1]) = 2
    /\ result[1] # C12_Concat(summaries)

\* the second pass returned an output that still exceeds max_length
C13_WitnessOvershoot ==
    /\ MergeDone
    /\ Len(hist.calls) = 1 /\ hist.calls[1].out.status = "ok"
    /\ WordCount(result[1]) > max_length /\ max_length >= 1

-----------------------------------------------------------------------------
(* Properties of export.py, checked under ExportSpec *)

\* C17: export_to_txt and export_to_pdf, called with an empty or
\* whitespace-only transcript and an empty summary, fail with an error; they
\* do not return bytes.
C17_EmptyContentRejected ==
    (export_fn \in {"export_to_txt", "export_to_pdf"}
       /\ export_ret # <<>>
       /\ Blank(arg_transcript) /\ arg_summary = <<>>)
        => export_ret[1].raised

C18_HasContent(t) == \E i \in 1..Len(t) : t[i] \notin {" ", "\t", "\n"}

\* C18: validate_export_inputs returns none exactly when both arguments
\* contain a character that is not whitespace; a transcript without one gives
\* a message naming the transcript whatever the summary is; a transcript with
\* one and a summary without give a message naming the summary.
C18_ValidateExportInputs ==
    (export_fn = "validate_export_inputs" /\ export_ret # <<>>) =>
        LET error == export_ret[1]
        IN  /\ error = <<>> <=>
                  (C18_HasContent(arg_transcript) /\ C18_HasContent(arg_summary))
            /\ ~C18_HasContent(arg_transcript) =>
                  (error # <<>> /\ error[1][1] = "Transcript")
            /\ (C18_HasContent(arg_transcript) /\ ~C18_HasContent(arg_summary))
                  => (error # <<>> /\ error[1][1] = "Summary")

\* both arguments are whitespace only and the message names the transcript
C18_Witness ==
    /\ export_fn = "validate_export_inputs"
    /\ arg_transcript # <<>> /\ ~C18_HasContent(arg_transcript)
    /\ arg_summary # <<>> /\ ~C18_HasContent(arg_summary)
    /\ export_ret = <<Some(TranscriptEmptyMsg)>>

-----------------------------------------------------------------------------
(* Properties of transcribe.py, checked under TransSpec *)

\* C21: get_cached_model_info() called right after clear_model_cache(),
\* whatever the state before, reports is_loaded false and model_name none.
C21_InfoAfterClear ==
    (model_info # <<>> /\ model_info[1].after_clear) =>
        /\ model_info[1].is_loaded = FALSE
        /\ model_info[1].model_name = <<>>

\* C28: when transcribe returns, none of the temporary WAV files created
\* during the call exists, on the success path and on every error path.
C28_TempWavCleanup ==
    tr.pc = "return" => tr.made \cap files = {}

-----------------------------------------------------------------------------
(* Properties of the app, checked under AppSpec *)

\* C22: the application never invokes summarize with min_length >=
\* max_length; an invalid pair read from the environment does not reach
\* summarize
C22_ValidLengthsReachSummarize ==
    summ_args # <<>> => summ_args[1].min_length < summ_args[1].max_length

\* C29: between two runs of process_audio, a non-empty transcript and a
\* non-empty summary in the session were written by the same run
C29_SessionConsistency ==
    (app.pc = "ready" /\ session.transcript # <<>> /\ session.summary # <<>>)
        => src.summary = src.transcript

-----------------------------------------------------------------------------
(* Greedy packing in chunk_text, checked under ChunkSpec *)

\* the estimate of the first j sentences of a list, in tenths of a token
RECURSIVE C23_Est10(_, _)
C23_Est10(sents, j) ==
    IF j = 0 THEN 0 ELSE C23_Est10(sents, j - 1) + Est10(sents[j])

\* the sentences of the chunks k.. of an outcome, in order
RECURSIVE C23_Sentences(_, _)
C23_Sentences(origin, k) ==
    IF k > Len(origin) THEN <<>>
    ELSE origin[k].sents \o C23_Sentences(origin, k + 1)

\* the chunks that the hard split made come first; C23_Packed is the index of
\* the first chunk packed from whole sentences
C23_Packed(origin) ==
    Cardinality({k \in 1..Len(origin) : origin[k].hard}) + 1

C23_WitnessHardSplit ==
    /\ ret # <<>>
    /\ ~ret[1].raised
    /\ Len(ret[1].origin) >= 3
    /\ ret[1].origin[1].hard
    /\ ~ret[1].origin[Len(ret[1].origin)].hard

-----------------------------------------------------------------------------
(* Failures inside the chunked path and in the model load, checked under    *)
(* Spec                                                                     *)

\* the per-chunk calls of the running execution that raised
C24_ChunkRaised == CallsRaised \cap CallsOfKind("chunk")

\* the first n words of a list of words
C24_FirstWords(w, n) == SubSeq(w, 1, IF n < Len(w) THEN n ELSE Len(w))

\* C24: when the model call on the k-th chunk raises, it is the last model
\* call of the execution, merge_summaries is not invoked, and summarize
\* returns (first 3 sentences of the text, none) whatever the summaries of
\* the chunks before it were; when every per-chunk call returned and the
\* second pass of the merge raised, the fallback is not used and the result
\* is the first max_length words of the concatenated chunk summaries.
C24_MidPipelineFailure ==
    /\ C24_ChunkRaised # {} =>
          /\ C24_ChunkRaised = {Len(hist.calls)}
          /\ Len(hist.calls) = Len(summaries) + 1
          /\ Len(hist.calls) <= Len(chunks)
          /\ hist.merges = <<>>
          /\ pc \in {"except", "return"}
          /\ pc = "return" =>
                /\ hist.fallbacks = 1
                /\ result = <<C3_FirstThree(text), None>>
    /\ (pc = "return" /\ C24_ChunkRaised = {}
          /\ CallsRaised \cap CallsOfKind("merge") # {}) =>
          /\ Len(summaries) = Len(chunks)
          /\ \A i \in 1..Len(chunks) :
                /\ hist.calls[i].kind = "chunk"
                /\ hist.calls[i].out = Returned(summaries[i])
          /\ hist.fallbacks = 0
          /\ result[2] = None
          /\ Split(result[1]) =
                C24_FirstWords(Split(C12_Concat(summaries)), max_length)

\* the call on the second chunk raised after the first chunk was summarized
C24_Witness ==
    /\ pc = "return"
    /\ Len(hist.calls) >= 2
    /\ C24_ChunkRaised = {Len(hist.calls)}
    /\ summaries # <<>>
    /\ summaries[1] # <<>>

\* every chunk was summarized and the second pass raised
C24_WitnessMerge ==
    /\ pc = "return"
    /\ C24_ChunkRaised = {}
    /\ CallsRaised \cap CallsOfKind("merge") # {}
    /\ result[1] # <<>>

\* C26: whenever summarize on a text (a str) takes the chunked path,
\* chunk_text returns at least two chunks, and an execution in which no
\* per-chunk call raised has attempted a call for each of them.
C26_AtLeastTwoChunks ==
    (hist.chunker >= 1 /\ text_type = "str") =>
        /\ Est10(text) > MAX_TOKENS * 10
        /\ pc # "except" => Len(chunks) >= 2
        /\ (pc \in {"merge", "merge_call", "return"} /\ C24_ChunkRaised = {}) =>
              /\ Cardinality(CallsOfKind("chunk")) = Len(chunks)
              /\ Cardinality(CallsOfKind("chunk")) >= 2

\* a text of one sentence just over the budget, split into two groups of
\* words, both summarized
C26_Witness ==
    /\ pc = "return"
    /\ hist.chunker = 1
    /\ text_type = "str"
    /\ Len(ReSplit(text)) = 1
    /\ Len(chunks) = 2
    /\ Cardinality(CallsOfKind("chunk")) = 2
    /\ CallsRaised = {}

\* after pipeline(...) raised: no handle, no model call, and on a str the
\* pair (first 3 sentences, none)
C27_State ==
    hist.loadRaised =>
        /\ ~is_loaded
        /\ hist.loads = 1
        /\ hist.calls = <<>>
        /\ ~IsEmptyInput(text)
        /\ pc \in {"except", "return"}
        /\ (pc = "return" /\ text_type = "str") =>
              result = <<C3_FirstThree(text), None>>

\* the call that failed to load leaves no handle behind; a call starts from
\* the cache as it is, and a call past validation that finds no handle
\* invokes pipeline(...)
C27_Step ==
    /\ (hist.loadRaised /\ pc = "return") => (pc' = "idle" /\ cached' = "none")
    /\ (pc = "idle" /\ pc' # "idle") => hist'.cached0 = cached
    /\ (pc = "init_pipeline" /\ hist.cached0 = "none") =>
          (pc' = "loading" /\ hist'.loads = 1)

\* C27: when creating the handle raises during summarize on a text that is
\* not blank, the handle stays uninitialized (is_loaded False), no model call
\* is made, summarize returns (extractive fallback, none), and the next call
\* on such a text attempts the load again.
C27_LoadFailure ==
    /\ []C27_State
    /\ [][C27_Step]_vars

\* a call whose load raised has returned the fallback of a text of several
\* sentences
C27_Witness ==
    /\ pc = "return"
    /\ hist.loadRaised
    /\ text_type = "str"
    /\ Len(ReSplit(text)) >= 2
    /\ result[2] = None
    /\ result[1] # <<>>

-----------------------------------------------------------------------------
(* Properties of concurrent calls, checked under ConcSpec *)

\* C25: when callers execute summarize concurrently starting from an
\* uninitialized cache, under every interleaving of their steps the model
\* handle is created at most once between clears
C25_CreatedOnce == Cardinality(created) <= 1

-----------------------------------------------------------------------------
(* Properties of _extractive_fallback, checked under FallbackSpec *)

\* the sentences of a result; the empty result has none
C30_SentenceCount(r) == IF r = <<>> THEN 0 ELSE Len(ReSplit(r))

\* v is a prefix of w
C30_IsPrefix(v, w) == Len(v) <= Len(w) /\ v = SubSeq(w, 1, Len(v))

\* at most n sentences, words a prefix of the words of the text, and not
\* empty when the text is not blank
C30_Shape(t, n, r) ==
    /\ C30_SentenceCount(r) <= n
    /\ C30_IsPrefix(Split(r), Split(t))
    /\ ~Blank(t) => r # <<>>

\* C30 as stated: for every text and every n, _extractive_fallback(text, n)
\* returns at most n sentences, its words are a prefix of the words of the
\* text, and for a text that is not blank the result is not empty.
C30_FallbackShapeAsStated ==
    fb_ret # <<>> => C30_Shape(fb_text, fb_num_sentences, fb_ret[1])

\* C30 (amended): the same for every text and every n >= 1.
C30_FallbackShape ==
    (fb_ret # <<>> /\ fb_num_sentences >= 1) =>
        C30_Shape(fb_text, fb_num_sentences, fb_ret[1])

\* a text with more sentences than asked for, cut to the first two
C30_Witness ==
    /\ fb_ret # <<>>
    /\ fb_num_sentences = 2
    /\ Len(ReSplit(fb_text)) >= 3
    /\ C30_SentenceCount(fb_ret[1]) = 2
    /\ Len(Split(fb_ret[1])) < Len(Split(fb_text))


====
